---- MODULE Spec2Model ----
(***************************************************************************)
(* A model of the Polymarket paper-trading bot: the eligibility filter of  *)
(* scanner.py, the virtual trader and the run ledger of trader.py, the     *)
(* settlement reconciler of scanner.py and the scan loop of main.py.       *)
(*                                                                         *)
(* Units.  Prices and probabilities, as the API sends them, are integers   *)
(* in hundredths of a dollar per share (0.97 is 97), volume is in cents    *)
(* and time is in whole hours of one day plus the seconds slept.  The      *)
(* amounts the trader computes (balance, cost, shares, payout) are Python  *)
(* floats and are modelled as the IEEE-754 doubles they are, see the       *)
(* section on Python floats.                                               *)
(***************************************************************************)
EXTENDS Integers, Sequences, FiniteSets, TLC

VARIABLES
    balance,          \* VirtualTrader.balance (a float)
    initial_balance,  \* VirtualTrader.initial_balance (a float)
    positions,        \* VirtualTrader.positions
    trade_history,    \* VirtualTrader.trade_history
    last_call,        \* the last execute_trade call: its arguments and outcome
    now,              \* the clock read by hours_until_end (hour of the day)
    slept,            \* the one-second sleeps made in the wait under way
    raw,              \* what GET /markets gave in the current cycle
    batch,            \* the Market list handed to filter_markets
    selected,         \* what filter_markets returned for batch
    file,             \* data/trades.json as it is on disk
    settlement,       \* what the last check_settlements call returned
    queried,          \* the market ids that call requested, in order
    api,              \* what the API answered to each of them
    trades,           \* TradeRecorder.trades, the ledger in memory
    running,          \* ArbitrageBot.running, the stop flag
    cycle,            \* the cycles run_loop has started
    run,              \* the locals of the run_once call in progress
    error,            \* the exception the current cycle ended in, if any
    pc                \* the control point of the process

traderVars == <<balance, initial_balance, positions, trade_history, last_call>>
filterVars == <<now, slept, raw, batch, selected>>
settleVars == <<settlement, queried, api>>
loopVars == <<trades, running, cycle, run, error>>
vars == <<traderVars, filterVars, file, settleVars, loopVars, pc>>

----------------------------------------------------------------------------
(* Bounds of the model *)

\* execute_trade calls made on one trader in SpecTrader
MaxCalls == 3

\* longest Market list handed to filter_markets in SpecFilter
MaxBatch == 6

\* most executed trades in a ledger file handed to SpecReconcile
MaxLedgerTrades == 3

\* cycles of run_loop followed in Spec, each but the last with the sleeps of
\* the wait behind it
MaxCycles == 2

----------------------------------------------------------------------------
(* config.py *)

\* VIRTUAL_BALANCE = 1000.0 (dollars)
VIRTUAL_BALANCE == 1000

\* MAX_TRADES_PER_RUN = 5
MAX_TRADES_PER_RUN == 5

\* MIN_PROBABILITY = 0.90, in hundredths
MIN_PROBABILITY == 90

\* MAX_PROBABILITY = 0.98, in hundredths
MAX_PROBABILITY == 98

\* MAX_HOURS_UNTIL_END = 4
MAX_HOURS_UNTIL_END == 4

\* MIN_VOLUME = 1000
MIN_VOLUME == 1000

\* MAX_FEE = 0.0, in hundredths
MAX_FEE == 0

\* TRADE_AMOUNT = 5 (dollars)
TRADE_AMOUNT == 5

\* shares_count = 5 in execute_trade
SHARES_COUNT == 5

\* SCAN_INTERVAL = 3600 (seconds)
SCAN_INTERVAL == 3600

\* dollars to cents
Cents(dollars) == 100 * dollars

----------------------------------------------------------------------------
(* Python values *)

\* Python's None, as a return value
None == [none |-> TRUE]

Max(a, b) == IF a >= b THEN a ELSE b

Min(a, b) == IF a <= b THEN a ELSE b

\* the elements of a sequence
Range(seq) == { seq[i] : i \in 1..Len(seq) }

\* seq[:n]
Prefix(seq, n) == SubSeq(seq, 1, Min(Len(seq), n))

\* float(s) of the numeric strings the model uses, in hundredths; any
\* other string raises ValueError
ParseFloat(s) ==
    CASE s = "0"      -> [ok |-> TRUE, value |-> 0]
      [] s = "0.02"   -> [ok |-> TRUE, value |-> 2]
      [] s = "-0.01"  -> [ok |-> TRUE, value |-> -1]
      [] s = "999.99" -> [ok |-> TRUE, value |-> 99999]
      [] s = "1000"   -> [ok |-> TRUE, value |-> 100000]
      [] s = "5000"   -> [ok |-> TRUE, value |-> 500000]
      [] OTHER        -> [ok |-> FALSE, value |-> 0]

\* json.loads(s) of the outcomePrices strings the model uses, prices in
\* hundredths; any other string raises
JsonLoadsPrices(s) ==
    CASE s = "[0.97, 0.03]" -> [ok |-> TRUE, value |-> <<97, 3>>]
      [] s = "[0.05, 0.95]" -> [ok |-> TRUE, value |-> <<5, 95>>]
      [] s = "[0.90, 0.10]" -> [ok |-> TRUE, value |-> <<90, 10>>]
      [] s = "[0.92, 0.08]" -> [ok |-> TRUE, value |-> <<92, 8>>]
      [] s = "[0.5, 0.5]"   -> [ok |-> TRUE, value |-> <<50, 50>>]
      [] s = "[]"           -> [ok |-> TRUE, value |-> <<>>]
      [] OTHER              -> [ok |-> FALSE, value |-> <<>>]

\* any(kw in question.lower() for kw in crypto_keywords), of the questions
\* the model uses
HasCryptoKeyword(question) ==
    question \in {"Bitcoin above 100k?", "ETH up or down?"}

\* datetime.fromisoformat(s.replace('Z', '').replace('+00:00', '')) of the
\* timestamps the model uses, as the hour of 2026-01-01 (UTC assumed when
\* no zone is left); any other string raises ValueError
FromIsoFormat(s) ==
    CASE s = "2026-01-01T09:00:00Z"      -> [ok |-> TRUE, hour |-> 9]
      [] s = "2026-01-01T10:00:00Z"      -> [ok |-> TRUE, hour |-> 10]
      [] s = "2026-01-01T11:00:00Z"      -> [ok |-> TRUE, hour |-> 11]
      [] s = "2026-01-01T12:00:00Z"      -> [ok |-> TRUE, hour |-> 12]
      [] s = "2026-01-01T14:00:00+00:00" -> [ok |-> TRUE, hour |-> 14]
      [] s = "2026-01-01T15:00:00"       -> [ok |-> TRUE, hour |-> 15]
      [] OTHER                           -> [ok |-> FALSE, hour |-> 0]

----------------------------------------------------------------------------
(* Python floats *)

(* A float of the program is an IEEE-754 double that lies within a few     *)
(* ulps of a whole number of cents.  It is the record [c, e] standing for  *)
(* the double of value (c * 2^58 + e) / (25 * 2^60): c is the amount       *)
(* in cents (for a share count, in hundredths of a share) and e the        *)
(* distance of the double from that decimal amount.  Every double of       *)
(* magnitude between 0.01 and 1024 has such a record, since its ulp, 2^(E  *)
(* - 52) for the binade [2^E, 2^(E+1)), is the whole number 25 * 2^(E + 8) *)
(* of units.  The operators round to nearest, ties to even, as the         *)
(* hardware does.                                                          *)

\* 2 ** n, for n up to 30
Pow2(n) ==
    << 1, 2, 4, 8, 16, 32, 64, 128, 256, 512, 1024, 2048, 4096, 8192, 16384,
       32768, 65536, 131072, 262144, 524288, 1048576, 2097152, 4194304,
       8388608, 16777216, 33554432, 67108864, 134217728, 268435456,
       536870912, 1073741824 >>[n + 1]

Abs(n) == IF n < 0 THEN -n ELSE n

\* 0.0, and the int 0 that sum() starts from
Zero == [c |-> 0, e |-> 0]

\* the exponent E of the binade [2^E, 2^(E+1)) holding the positive amount
\* of c cents and e units, for amounts from 0.01 to below 1024
Binade(c, e) ==
    LET RECURSIVE Up(_)
        Up(k) == IF c < 200 * Pow2(k) THEN k ELSE Up(k + 1)
        RECURSIVE Down(_)
        Down(k) == IF 100 <= c * Pow2(k) THEN -k ELSE Down(k + 1)
        k     == IF c >= 100 THEN Up(0) ELSE Down(1)
        atLow == IF k >= 0 THEN c = 100 * Pow2(k) ELSE c * Pow2(-k) = 100
    IN  IF atLow /\ e < 0 THEN k - 1 ELSE k

\* the ulp of the binade of exponent E, in units
Ulp(E) == 25 * Pow2(E + 8)

\* the double nearest to the positive amount of c cents and e units: the
\* amount lies r units above a double, the remainder of c * 2^58 + e by the
\* ulp, and goes to that double or the next, to the even mantissa on a tie
RoundPositive(c, e) ==
    LET Residue(E) == ((c % 25) * (Pow2((50 - E) % 20) % 25)) % 25
        \* the ulp g, the residue k and the excess t of the binade E
        Parts(E) == <<Ulp(E), Residue(E), Pow2(E + 8) * Residue(E) + e>>
        Nearest(x) ==
            LET g   == x[1]
                k   == x[2]
                t   == x[3]
                r   == t % g
                j   == (t - r) \div g
                odd == (k + j) % 2 = 1
            IN  IF r < g - r \/ (r = g - r /\ ~odd)
                THEN [c |-> c, e |-> e - r]
                ELSE [c |-> c, e |-> e - r + g]
    IN  CHOOSE d \in { Nearest(x) : x \in { Parts(E) : E \in {Binade(c, e)} } } :
          TRUE

\* the double an operation returns for the exact result of c cents and e
\* units; a result smaller than a cent is the difference of two nearby
\* doubles and is a double itself
RoundToDouble(c, e) ==
    IF c = 0 THEN [c |-> 0, e |-> e]
    ELSE IF c < 0
         THEN LET r == RoundPositive(-c, -e) IN [c |-> -r.c, e |-> -r.e]
         ELSE RoundPositive(c, e)

\* float(s) of the decimal amount of c cents, also the float of a literal
FloatOf(c) == RoundToDouble(c, 0)

\* a + b (x and y name the operands, each evaluated once)
FAdd(a, b) ==
    CHOOSE r \in { RoundToDouble(x.c + y.c, x.e + y.e) : x \in {a}, y \in {b} } :
      TRUE

\* a - b
FSub(a, b) ==
    CHOOSE r \in { RoundToDouble(x.c - y.c, x.e - y.e) : x \in {a}, y \in {b} } :
      TRUE

\* a * n for an int n
FMulInt(a, n) ==
    CHOOSE r \in { RoundToDouble(x.c * n, x.e * n) : x \in {a} } : TRUE

\* a < b
FLess(a, b) ==
    \E x \in {a}, y \in {b} : x.c < y.c \/ (x.c = y.c /\ x.e < y.e)

\* a <= b
FLessEq(a, b) == ~FLess(b, a)

RECURSIVE SumOver(_, _)
\* sum(f(x) for x in seq), f given as a field name: the additions are made
\* from left to right, starting from 0
SumOver(seq, field) ==
    IF seq = <<>> THEN Zero
    ELSE FAdd(SumOver(SubSeq(seq, 1, Len(seq) - 1), field), seq[Len(seq)][field])

\* JSON values of an API payload, numbers in hundredths; Absent stands for
\* a key the object lacks
JBool(b) == [t |-> "bool", b |-> b]
JStr(str) == [t |-> "str", s |-> str]
JNum(n) == [t |-> "num", n |-> n]
JNull == [t |-> "null"]
Absent == [t |-> "absent"]

\* dict.get(key, default) on an object given as a record of JSON values
DictGet(obj, key, default) ==
    IF obj[key] = Absent THEN default ELSE obj[key]

\* truthiness granted to a native true only
Truthy_strict(v) == v.t = "bool" /\ v.b

\* Python truthiness of a JSON value: None, 0 and "" are false, every
\* other string or number is true
Truthy(v) ==
    CASE v.t = "bool" -> v.b
      [] v.t = "str"  -> v.s # ""
      [] v.t = "num"  -> v.n # 0
      [] OTHER        -> FALSE

\* float(v), in hundredths: of a number, of a string that parses, of a
\* bool; None and any other string raise
PyFloat(v) ==
    CASE v.t = "num"  -> [ok |-> TRUE, value |-> v.n]
      [] v.t = "str"  -> ParseFloat(v.s)
      [] v.t = "bool" -> [ok |-> TRUE, value |-> IF v.b THEN 100 ELSE 0]
      [] OTHER        -> [ok |-> FALSE, value |-> 0]

\* str(x) of a JSON number of n hundredths: the digits of an integer
\* (a number of integral value is a JSON integer), else those of the float
\* with its one or two decimals
NumStr(n) ==
    LET a     == IF n < 0 THEN -n ELSE n
        sign  == IF n < 0 THEN "-" ELSE ""
        whole == ToString(a \div 100)
        frac  == a % 100
    IN  IF frac = 0 THEN sign \o whole
        ELSE IF frac % 10 = 0
             THEN sign \o whole \o "." \o ToString(frac \div 10)
        ELSE sign \o whole \o "." \o ToString(frac \div 10)
                  \o ToString(frac % 10)

\* str(v)
PyStr(v) ==
    CASE v.t = "bool" -> IF v.b THEN "True" ELSE "False"
      [] v.t = "str"  -> v.s
      [] v.t = "num"  -> NumStr(v.n)
      [] OTHER        -> "None"

\* trade.get('settled') as a truth value: a trade without the key is not
\* settled
IsSettled(trade) ==
    IF "settled" \in DOMAIN trade THEN trade.settled ELSE FALSE

----------------------------------------------------------------------------
(* scanner.py: class Market, derived properties *)

\* Market.yes_price: float(outcome_prices[0]) if len > 0 else 0.0
yes_price(m) ==
    IF Len(m.outcome_prices) > 0 THEN m.outcome_prices[1] ELSE 0

\* Market.no_price: float(outcome_prices[1]) if len > 1 else 0.0
no_price(m) ==
    IF Len(m.outcome_prices) > 1 THEN m.outcome_prices[2] ELSE 0

\* Market.hours_until_end at clock t: float('inf') when end_date is empty or
\* does not parse, else the hours from t to end_date
hours_until_end(m, t) ==
    IF m.end_date = "" THEN [inf |-> TRUE, h |-> 0]
    ELSE LET end == FromIsoFormat(m.end_date)
         IN  IF end.ok THEN [inf |-> FALSE, h |-> end.hour - t]
             ELSE [inf |-> TRUE, h |-> 0]

\* Market.max_probability
max_probability(m) == Max(yes_price(m), no_price(m))

\* the dominant outcome with ties given to NO
high_probability_outcome_strict(m) ==
    IF yes_price(m) > no_price(m) THEN "YES" ELSE "NO"

\* Market.high_probability_outcome: ties go to YES
high_probability_outcome(m) ==
    IF yes_price(m) >= no_price(m) THEN "YES" ELSE "NO"

\* Market.high_probability_price
high_probability_price(m) == Max(yes_price(m), no_price(m))

----------------------------------------------------------------------------
(* scanner.py: MarketScanner.filter_markets *)

\* "if market.closed or not market.accepting_orders: continue"
NotTradable(m) == m.closed \/ ~m.accepting_orders

\* "if market.hours_until_end <= 0: continue"
AlreadyEnded(h) == ~h.inf /\ h.h <= 0

\* "if market.hours_until_end > config.MAX_HOURS_UNTIL_END: continue"
TooFarAhead(h) == h.inf \/ h.h > MAX_HOURS_UNTIL_END

\* the probability band with its lower bound made exclusive
ProbabilityOutOfBand_strict(p) == p <= MIN_PROBABILITY \/ p > MAX_PROBABILITY

\* "if market.max_probability < config.MIN_PROBABILITY: continue" and
\* "if market.max_probability > config.MAX_PROBABILITY: continue"
ProbabilityOutOfBand(p) == p < MIN_PROBABILITY \/ p > MAX_PROBABILITY

\* "fee = float(market.fee) if market.fee else 0; if fee > config.MAX_FEE:
\* continue", inside try/except-pass: a fee that does not parse passes
FeeTooHigh(fee) ==
    /\ Truthy(fee)
    /\ PyFloat(fee).ok
    /\ PyFloat(fee).value > MAX_FEE

\* "if market.volume < config.MIN_VOLUME: continue"
VolumeTooLow(v) == v < Cents(MIN_VOLUME)

\* one pass of the loop body of filter_markets at clock t: TRUE when the
\* market reaches filtered.append
PassesFilter(m, t) ==
    /\ ~NotTradable(m)
    /\ ~AlreadyEnded(hours_until_end(m, t))
    /\ ~TooFarAhead(hours_until_end(m, t))
    /\ ~ProbabilityOutOfBand(max_probability(m))
    /\ ~FeeTooHigh(m.fee)
    /\ ~VolumeTooLow(m.volume)

\* the sort key negated: highest price first
SortKey_descending(m) == 0 - high_probability_price(m)

\* key=lambda m: m.high_probability_price
SortKey(m) == high_probability_price(m)

RECURSIVE InsertByKey(_, _)
\* x put into the sorted list behind every element whose key is <= its own
InsertByKey(sorted, x) ==
    IF sorted = <<>> THEN <<x>>
    ELSE LET n == Len(sorted)
         IN  IF SortKey(sorted[n]) <= SortKey(x)
             THEN Append(sorted, x)
             ELSE Append(InsertByKey(SubSeq(sorted, 1, n - 1), x), sorted[n])

RECURSIVE StableSort(_)
\* list.sort(key=...): ascending, elements of equal key keep their order
StableSort(seq) ==
    IF seq = <<>> THEN <<>>
    ELSE InsertByKey(StableSort(SubSeq(seq, 1, Len(seq) - 1)), seq[Len(seq)])

\* the list filtered as the loop of filter_markets leaves it, before the sort
Survivors(markets, t) ==
    LET Test(m) == PassesFilter(m, t)
    IN  SelectSeq(markets, Test)

\* MarketScanner.filter_markets(markets) at clock t
filter_markets(markets, t) ==
    Prefix(StableSort(Survivors(markets, t)), MAX_TRADES_PER_RUN)

----------------------------------------------------------------------------
(* scanner.py: MarketScanner.parse_market, fetch_markets, scan *)

\* val.lower() == 'true': the strings that spell "true" with each letter in
\* either case (no other character lower-cases to one of its letters)
LowersToTrue(str) ==
    str \in {"true", "truE", "trUe", "trUE", "tRue", "tRuE", "tRUe", "tRUE",
             "True", "TruE", "TrUe", "TrUE", "TRue", "TRuE", "TRUe", "TRUE"}

\* parse_bool(val): a bool is itself, a string is true when it lower-cases
\* to "true", anything else is False
parse_bool(val) ==
    CASE val.t = "bool" -> val.b
      [] val.t = "str"  -> LowersToTrue(val.s)
      [] OTHER          -> FALSE

\* "if data.get('outcomePrices'): try: json.loads(...) except: []"; a value
\* that is no string makes json.loads raise as well
ParsePrices(val) ==
    IF Truthy(val) /\ val.t = "str" /\ JsonLoadsPrices(val.s).ok
    THEN JsonLoadsPrices(val.s).value
    ELSE <<>>

\* float(data.get(key, 0) or 0): any falsy value counts as 0, a value that
\* float() refuses raises
FloatOrZero(val) ==
    IF ~Truthy(val) THEN [ok |-> TRUE, value |-> 0] ELSE PyFloat(val)

\* MarketScanner.parse_market(data): the Market, or None when a conversion
\* in the Market(...) call raises (the outer except).  data comes out of
\* fetch_markets, so its question is a string or absent.
parse_market(data) ==
    IF ~FloatOrZero(data.volume).ok \/ ~FloatOrZero(data.liquidity).ok
    THEN None
    ELSE [id               |-> DictGet(data, "id", JStr("")).s,
          question         |-> DictGet(data, "question", JStr("")).s,
          end_date         |-> DictGet(data, "endDate", JStr("")).s,
          outcome_prices   |-> ParsePrices(data.outcomePrices),
          volume           |-> FloatOrZero(data.volume).value,
          liquidity        |-> FloatOrZero(data.liquidity).value,
          fee              |-> DictGet(data, "fee", JStr("0")),
          closed           |-> parse_bool(DictGet(data, "closed", JNull)),
          accepting_orders |-> parse_bool(DictGet(data, "acceptingOrders", JBool(TRUE)))]

\* "question = m.get('question', '').lower()": a question that is present
\* and no string has no lower() and raises AttributeError
QuestionRaises(m) == m.question.t \notin {"str", "absent"}

\* the client-side filter of fetch_markets: the records without a crypto
\* keyword in their question
NonCrypto(records) ==
    LET Test(m) == ~HasCryptoKeyword(DictGet(m, "question", JStr("")).s)
    IN  SelectSeq(records, Test)

\* a fetch that lets the RequestException out
fetch_markets_propagates(resp) ==
    IF ~resp.ok THEN [exc |-> "RequestException", markets |-> <<>>]
    ELSE IF \E i \in 1..Len(resp.body) : QuestionRaises(resp.body[i])
    THEN [exc |-> "AttributeError", markets |-> <<>>]
    ELSE [exc |-> "none", markets |-> NonCrypto(resp.body)]

\* MarketScanner.fetch_markets(): resp is what the HTTP request gave, a
\* RequestException (network error, timeout, non-2xx status) or the decoded
\* list; gives the exception that escapes and the list returned
fetch_markets(resp) ==
    IF ~resp.ok THEN [exc |-> "none", markets |-> <<>>]
    ELSE IF \E i \in 1..Len(resp.body) :
              /\ QuestionRaises(resp.body[i])
              /\ \A j \in 1..(i - 1) : ~QuestionRaises(resp.body[j])
    THEN [exc |-> "AttributeError", markets |-> <<>>]
    ELSE [exc |-> "none", markets |-> NonCrypto(resp.body)]

\* the Markets scan() parses out of the fetched records, None results left
\* out
ParseAll(records) ==
    LET parsed == [i \in 1..Len(records) |-> parse_market(records[i])]
        Test(m) == m # None
    IN  SelectSeq(parsed, Test)

\* MarketScanner.scan() at clock t: the exception that escapes, the
\* returned markets and the stats
scan(resp, t) ==
    LET fetched  == fetch_markets(resp)
        markets  == ParseAll(fetched.markets)
        filtered == filter_markets(markets, t)
    IN  [exc     |-> fetched.exc,
         markets |-> IF fetched.exc = "none"
                     THEN Prefix(filtered, MAX_TRADES_PER_RUN) ELSE <<>>,
         stats   |-> [total_api    |-> Len(fetched.markets),
                      total_parsed |-> Len(markets),
                      non_crypto   |-> Len(markets),
                      filtered     |-> Len(filtered)]]

----------------------------------------------------------------------------
(* scanner.py: MarketScanner.check_settlements *)

RECURSIVE Flatten(_)
\* the executed_trades of all runs, in run order then trade order
Flatten(runs) ==
    IF runs = <<>> THEN <<>>
    ELSE runs[1].executed_trades \o Flatten(Tail(runs))

\* every trade collected, settled or not
UnsettledTrades_all(ledger) == Flatten(ledger.runs)

\* "if not t.get('settled'): all_trades.append(t)"
UnsettledTrades(ledger) ==
    LET Test(tr) == ~IsSettled(tr)
    IN  SelectSeq(Flatten(ledger.runs), Test)

\* de-duplication that keeps the last trade of each market_id
UniqueMarkets_lastwins(all_trades) ==
    LET Test(i) == /\ all_trades[i].market_id # ""
                   /\ \A j \in (i + 1)..Len(all_trades) :
                        all_trades[j].market_id # all_trades[i].market_id
        keep == { i \in 1..Len(all_trades) : Test(i) }
        RECURSIVE Pick(_)
        Pick(i) == IF i > Len(all_trades) THEN <<>>
                   ELSE (IF i \in keep THEN <<all_trades[i]>> ELSE <<>>) \o Pick(i + 1)
    IN  Pick(1)

\* "if mid and mid not in unique_markets: unique_markets[mid] = t": the
\* values of the dict in insertion order, the first trade of every non-empty
\* market_id
UniqueMarkets(all_trades) ==
    LET Test(i) == /\ all_trades[i].market_id # ""
                   /\ \A j \in 1..(i - 1) :
                        all_trades[j].market_id # all_trades[i].market_id
        keep == { i \in 1..Len(all_trades) : Test(i) }
        RECURSIVE Pick(_)
        Pick(i) == IF i > Len(all_trades) THEN <<>>
                   ELSE (IF i \in keep THEN <<all_trades[i]>> ELSE <<>>) \o Pick(i + 1)
    IN  Pick(1)

\* a failed query taken for a closed market
Classify_failureCloses(resp) ==
    IF ~resp.ok THEN "cancelled"
    ELSE LET is_closed  == DictGet(resp.body, "closed", JBool(FALSE))
             resolution == DictGet(resp.body, "resolution", JNull)
         IN  IF Truthy(is_closed) /\ Truthy(resolution) /\ PyStr(resolution) # "null"
             THEN "resolved"
             ELSE IF Truthy(is_closed) THEN "cancelled"
             ELSE "open"

\* the class of one answer: "error" when session.get or response.json()
\* raises or the body is no object; else by "is_closed and resolution and
\* str(resolution) != 'null'", "elif is_closed", "else"
Classify(resp) ==
    IF ~resp.ok THEN "error"
    ELSE LET is_closed  == DictGet(resp.body, "closed", JBool(FALSE))
             resolution == DictGet(resp.body, "resolution", JNull)
         IN  IF Truthy(is_closed) /\ Truthy(resolution) /\ PyStr(resolution) # "null"
             THEN "resolved"
             ELSE IF Truthy(is_closed) THEN "cancelled"
             ELSE "open"

\* {**trade, 'resolution': resolution, 'settled': True}
SettledCopy(trade, resolution) ==
    [k \in DOMAIN trade \cup {"resolution", "settled"} |->
        IF k = "resolution" THEN resolution
        ELSE IF k = "settled" THEN TRUE
        ELSE trade[k]]

\* a result entry that is the ledger's trade as it was
ResultFor_unmarked(trade, resp) == trade

\* the result entry for a trade whose market answered resp, when it is
\* settled
ResultFor(trade, resp) ==
    IF Classify(resp) = "resolved"
    THEN SettledCopy(trade, DictGet(resp.body, "resolution", JNull))
    ELSE SettledCopy(trade, JStr("CANCELLED"))

RECURSIVE QueryLoop(_, _, _)
\* the loop "for mid, trade in unique_markets.items()" from entry i on,
\* answers[mid] being what the API answers for mid; acc holds resolved,
\* unresolved and newly_resolved
QueryLoop(unique, answers, acc) ==
    IF unique = <<>> THEN acc
    ELSE LET trade == unique[1]
             resp  == answers[trade.market_id]
             cls   == Classify(resp)
             next  ==
               IF cls \in {"resolved", "cancelled"}
               THEN [resolved   |-> Append(acc.resolved, ResultFor(trade, resp)),
                     unresolved |-> acc.unresolved,
                     newly_resolved |->
                        IF ~IsSettled(trade)
                        THEN Append(acc.newly_resolved, ResultFor(trade, resp))
                        ELSE acc.newly_resolved]
               ELSE [acc EXCEPT !.unresolved = Append(acc.unresolved, trade)]
         IN  QueryLoop(Tail(unique), answers, next)

\* {'resolved': [], 'unresolved': [], 'newly_resolved': []}
EmptySettlement == [resolved |-> <<>>, unresolved |-> <<>>, newly_resolved |-> <<>>]

\* the market ids check_settlements requests for a file, in order
MarketsToQuery(f) ==
    IF f.state # "ok" THEN <<>>
    ELSE LET u == UniqueMarkets(UnsettledTrades(f.ledger))
         IN  [i \in 1..Len(u) |-> u[i].market_id]

\* MarketScanner.check_settlements(trades_file): f is the file ("missing",
\* "corrupt" or "ok" with its ledger), answers the API's answer per market
\* id; gives the exception raised, the returned dict and the ids requested
check_settlements(f, answers) ==
    IF f.state = "missing"
    THEN [exc |-> "none", result |-> EmptySettlement, queried |-> <<>>]
    ELSE IF f.state = "corrupt"
    THEN [exc |-> "JSONDecodeError", result |-> EmptySettlement, queried |-> <<>>]
    ELSE LET all_trades == UnsettledTrades(f.ledger)
         IN  IF all_trades = <<>>
             THEN [exc |-> "none", result |-> EmptySettlement, queried |-> <<>>]
             ELSE [exc     |-> "none",
                   result  |-> QueryLoop(UniqueMarkets(all_trades), answers,
                                         EmptySettlement),
                   queried |-> MarketsToQuery(f)]

----------------------------------------------------------------------------
(* trader.py: VirtualTrader *)

\* the balance check of execute_trade with the comparison reversed in
\* strictness and operand: rejects only an empty balance
InsufficientBalance_nocost(bal, cost) == FLessEq(bal, Zero)

\* the balance check refusing also a balance equal to the cost
InsufficientBalance_orEqual(bal, cost) == FLessEq(bal, cost)

\* "if self.balance < cost: return None"
InsufficientBalance(bal, cost) == FLess(bal, cost)

\* the sizing of the superseded strategy (the comment block of
\* execute_trade): spend the amount argument, buy amount / price shares
TradeCost_budget(price, amount) == FloatOf(Cents(amount))

\* cost = price * shares_count, the float product of the price, itself the
\* float of the decimal the API sent, and the int 5; the amount argument
\* is not read
TradeCost(price, amount) == FMulInt(FloatOf(price), SHARES_COUNT)

\* shares = cost / price, the float quotient of the cost and the price it
\* was computed from; division by a zero price raises ZeroDivisionError
\* (callers test price # 0 first).  The exact quotient is 5 + x with x a
\* few ulps, x = 100 * n / price units but for a factor nearer to 1 than
\* any rounding could tell apart except on a tie; the quotient is the
\* double at m ulps from 5.0 inside the binade [4, 8)
TradeShares(cost, price) ==
    LET g == Ulp(Binade(Cents(SHARES_COUNT), 0))
        Quotient(n, pe) ==
            LET num == 200 * n + g * price
                den == 2 * g * price
                m   == num \div den
                tie == num % den = 0
                m2  == IF ~tie THEN m
                       ELSE IF pe = 0 THEN (IF m % 2 = 0 THEN m ELSE m - 1)
                       ELSE IF (n > 0) = (pe > 0) THEN m - 1 ELSE m
            IN  [c |-> Cents(SHARES_COUNT), e |-> m2 * g]
    IN  CHOOSE q \in { Quotient(cost.e - SHARES_COUNT * p.e, p.e) :
                         p \in {FloatOf(price)} } : TRUE

\* VirtualTrader.execute_trade(market, amount) on trader state t =
\* [balance, positions, trade_history] at instant ts; amount is None or
\* [dollars |-> n];
\* the result holds the new trader state, the returned value (a trade or
\* None) and the exception raised
execute_trade(t, market, amount, ts) ==
    LET amt     == IF amount = None THEN TRADE_AMOUNT ELSE amount.dollars
        outcome == high_probability_outcome(market)
        price   == high_probability_price(market)
        cost    == TradeCost(price, amt)
    IN  IF price = 0
        THEN [t |-> t, ret |-> None, exc |-> "ZeroDivisionError"]
        ELSE
        LET shares == TradeShares(cost, price)
            trade  == [market_id |-> market.id,
                       question  |-> market.question,
                       outcome   |-> outcome,
                       price     |-> price,
                       amount    |-> shares,
                       cost      |-> cost,
                       timestamp |-> ts,
                       status    |-> "simulated"]
            pos    == [market_id        |-> market.id,
                       outcome          |-> outcome,
                       price            |-> price,
                       shares           |-> shares,
                       cost             |-> cost,
                       potential_payout |-> shares,
                       profit_if_win    |-> FSub(shares, cost),
                       timestamp        |-> ts]
        IN  IF InsufficientBalance(t.balance, cost)
            THEN [t |-> t, ret |-> None, exc |-> "none"]
            ELSE [t   |-> [balance       |-> FSub(t.balance, cost),
                           positions     |-> Append(t.positions, pos),
                           trade_history |-> Append(t.trade_history, trade)],
                  ret |-> trade,
                  exc |-> "none"]

\* the invested total summed over the share values
get_total_invested_payout(pos) == SumOver(pos, "potential_payout")

\* VirtualTrader.get_total_invested
get_total_invested(pos) == SumOver(pos, "cost")

\* VirtualTrader.get_potential_payout
get_potential_payout(pos) == SumOver(pos, "potential_payout")

\* VirtualTrader.get_total_profit_if_win
get_total_profit_if_win(pos) == SumOver(pos, "profit_if_win")

----------------------------------------------------------------------------
(* trader.py: TradeRecorder *)

\* the fresh ledger _load returns when there is nothing to read
EmptyLedger ==
    [runs |-> <<>>, total_invested |-> Zero, total_payout |-> 0,
     win_count |-> 0, loss_count |-> 0]

\* a recorder that starts from the fresh ledger whatever the file holds
Load_fresh(f) == EmptyLedger

\* TradeRecorder._load(): the decoded file, or the fresh ledger when the file
\* is missing or json.load raises
Load(f) == IF f.state = "ok" THEN f.ledger ELSE EmptyLedger

\* the running total advanced by the cost of the trades
InvestedDelta_cost(executed) == SumOver(executed, "cost")

\* "sum(t['amount'] for t in executed)": the share counts
InvestedDelta(executed) == SumOver(executed, "amount")

\* TradeRecorder._save(): open(filepath, 'w') and json.dump, on the file
\* as it is before.  Outcome "ok" leaves the whole ledger on disk;
\* "open_fails" is open() raising OSError with the file untouched (no
\* descriptor left, no permission); "store_gone" is open() raising
\* FileNotFoundError, the data directory and the file gone; "write_fails"
\* is a write or close that fails after open() truncated the file (disk
\* full)
Save(before, ledger, outcome) ==
    CASE outcome = "ok"         -> [state |-> "ok", ledger |-> ledger]
      [] outcome = "open_fails" -> before
      [] outcome = "store_gone" -> [state |-> "missing"]
      [] OTHER                  -> [state |-> "corrupt"]

\* the ways _save raises OSError
SaveFailures == {"open_fails", "store_gone", "write_fails"}

\* TradeRecorder.record_run(run_data) at instant ts on the ledger in memory
\* and the file as it is before;
\* run_id stands for the random identifier.  Gives the ledger in memory, the
\* file and the exception raised
record_run(before, ledger, run_data, ts, outcome) ==
    LET run_record == [run_id                 |-> Len(ledger.runs) + 1,
                       timestamp              |-> ts,
                       virtual_balance_before |-> run_data.balance_before,
                       planned_trades         |-> run_data.planned_trades,
                       executed_trades        |-> run_data.executed_trades,
                       scan_info              |-> run_data.scan_info,
                       summary                |-> run_data.summary]
        appended   == [ledger EXCEPT !.runs = Append(@, run_record)]
        updated    == IF run_data.executed_trades # <<>>
                      THEN [appended EXCEPT !.total_invested =
                                FAdd(@, InvestedDelta(run_data.executed_trades))]
                      ELSE appended
    IN  [trades |-> updated,
         file   |-> Save(before, updated, outcome),
         exc    |-> IF outcome = "ok" THEN "none" ELSE "OSError"]

----------------------------------------------------------------------------
(* main.py: ArbitrageBot.run_once *)

\* PlannedTrade(...).to_dict() for one market; the reason text is left out
PlannedTrade(m) ==
    [market_id |-> m.id,
     question  |-> m.question,
     outcome   |-> high_probability_outcome(m),
     price     |-> high_probability_price(m),
     amount    |-> TRADE_AMOUNT]

\* "if self.trader.get_balance() < config.TRADE_AMOUNT: break"
BelowTradeAmount(bal) == FLess(bal, FloatOf(Cents(TRADE_AMOUNT)))

RECURSIVE TradeLoop(_, _, _, _)
\* "for market in markets:" of run_once at instant ts: the trader state and
\* the executed_trades list it ends with, and the exception that escapes
TradeLoop(t, markets, executed, ts) ==
    IF markets = <<>> \/ BelowTradeAmount(t.balance)
    THEN [t |-> t, executed |-> executed, exc |-> "none"]
    ELSE LET After(r) ==
                 IF r.exc # "none"
                 THEN [t |-> t, executed |-> executed, exc |-> r.exc]
                 ELSE TradeLoop(r.t, Tail(markets),
                                IF r.ret # None THEN Append(executed, r.ret)
                                ELSE executed, ts)
         IN  CHOOSE out \in { After(r) :
                              r \in {execute_trade(t, markets[1], None, ts)} } :
               TRUE

\* a run_data whose balance_after is the balance the cycle started with
RunData_staleBalance(locals, t) ==
    [balance_before  |-> locals.balance_before,
     balance_after   |-> locals.balance_before,
     planned_trades  |-> locals.planned_trades,
     executed_trades |-> locals.executed_trades,
     scan_info       |-> locals.scan_info,
     summary         |-> [markets_scanned  |-> Len(locals.markets),
                          trades_planned   |-> Len(locals.planned_trades),
                          trades_executed  |-> Len(locals.executed_trades),
                          total_invested   |-> get_total_invested(t.positions),
                          potential_payout |-> get_potential_payout(t.positions),
                          balance_after    |-> locals.balance_before]]

\* the run_data dict run_once hands to record_run
RunData(locals, t) ==
    [balance_before  |-> locals.balance_before,
     balance_after   |-> t.balance,
     planned_trades  |-> locals.planned_trades,
     executed_trades |-> locals.executed_trades,
     scan_info       |-> locals.scan_info,
     summary         |-> [markets_scanned  |-> Len(locals.markets),
                          trades_planned   |-> Len(locals.planned_trades),
                          trades_executed  |-> Len(locals.executed_trades),
                          total_invested   |-> get_total_invested(t.positions),
                          potential_payout |-> get_potential_payout(t.positions),
                          balance_after    |-> t.balance]]

\* the locals of run_once before it has set any
NoRun ==
    [balance_before |-> Zero, markets |-> <<>>, scan_info |-> <<>>,
     planned_trades |-> <<>>, executed_trades |-> <<>>]

----------------------------------------------------------------------------
(* SpecTrader: any sequence of execute_trade calls on one trader *)

\* a normalized market with the given id and prices; the other fields are
\* those of an open two-hour market
MarketOf(id, prices) ==
    [id |-> id, question |-> "Will it rain?", end_date |-> "2026-01-01T12:00:00Z",
     outcome_prices |-> prices, volume |-> 500000, liquidity |-> 0,
     fee |-> JStr("0"),
     closed |-> FALSE, accepting_orders |-> TRUE]

\* the markets execute_trade is called on: both sides dominant, a tie,
\* unparsable prices (0.0 / 0.0), a certain outcome, a single price, a
\* price whose product by 5 is not the double nearest to 4.60, and a price
\* for which cost / price is not 5.0
TraderMarkets ==
    { MarketOf("m1", p) : p \in {<<97, 3>>, <<3, 97>>, <<50, 50>>, <<>>} }
    \cup { MarketOf("m2", p) : p \in {<<100, 0>>, <<90>>, <<92, 8>>, <<98, 2>>} }

\* the amount argument: omitted, or a dollar amount
TraderAmounts == {None, [dollars |-> 1], [dollars |-> 10]}

\* starting balances: empty, below one trade, the decimal cost of a trade
\* at 0.92, Scenario D's $10, $12
TraderBalances == { FloatOf(c) : c \in {0, 300, 460, 1000, 1200} }

\* the trader as the specifications that never call it leave it
TraderIdle ==
    /\ balance = Zero
    /\ initial_balance = Zero
    /\ positions = <<>>
    /\ trade_history = <<>>
    /\ last_call = [n |-> 0, ret |-> None, exc |-> "none"]

\* the filter's variables as the specifications that never filter leave them
FilterIdle ==
    /\ now = 10
    /\ slept = 0
    /\ raw = None
    /\ batch = <<>>
    /\ selected = <<>>

\* no ledger file, no reconciliation made
SettleIdle ==
    /\ file = [state |-> "missing"]
    /\ settlement = EmptySettlement
    /\ queried = <<>>
    /\ api = <<>>

\* no scan loop running
LoopIdle ==
    /\ trades = EmptyLedger
    /\ running = TRUE
    /\ cycle = 0
    /\ run = NoRun
    /\ error = "none"

TraderInit ==
    /\ FilterIdle
    /\ SettleIdle
    /\ LoopIdle
    /\ pc = "trader"
    /\ balance \in TraderBalances
    /\ initial_balance = balance
    /\ positions = <<>>
    /\ trade_history = <<>>
    /\ last_call = [n |-> 0, ret |-> None, exc |-> "none"]

TraderExecute ==
    /\ last_call.n < MaxCalls
    /\ \E market \in TraderMarkets, amount \in TraderAmounts :
         LET r == execute_trade([balance |-> balance, positions |-> positions,
                                 trade_history |-> trade_history], market, amount,
                                now + last_call.n)
         IN  /\ balance' = r.t.balance
             /\ positions' = r.t.positions
             /\ trade_history' = r.t.trade_history
             /\ last_call' = [n |-> last_call.n + 1, market |-> market,
                              amount |-> amount, ret |-> r.ret, exc |-> r.exc]
    /\ UNCHANGED <<initial_balance, filterVars, file, settleVars, loopVars, pc>>

TraderNext == TraderExecute

SpecTrader == TraderInit /\ [][TraderNext]_vars

----------------------------------------------------------------------------
(* SpecFilter: filter_markets applied to one Market list *)

MarketIds == <<"m1", "m2", "m3", "m4", "m5", "m6", "m7", "m8">>

\* one Market of every combination of the fields the filter reads
FilterMarkets ==
    [id : {"m1"}, question : {"Will it rain?"},
     end_date : {"", "soon", "2026-01-01T09:00:00Z", "2026-01-01T10:00:00Z",
                 "2026-01-01T11:00:00Z", "2026-01-01T12:00:00Z",
                 "2026-01-01T14:00:00+00:00", "2026-01-01T15:00:00"},
     outcome_prices : {<<>>, <<95>>, <<89, 11>>, <<90, 10>>, <<5, 95>>,
                       <<98, 2>>, <<1, 99>>},
     volume : {0, 99999, 100000, 500000}, liquidity : {0},
     fee : {JStr(""), JStr("0"), JStr("0.02"), JStr("-0.01"), JStr("free"), JNull},
     closed : BOOLEAN, accepting_orders : BOOLEAN]

\* the shapes of the Markets of the longer lists: three survivors of
\* different or equal dominant price, and a closed market
RankShapes ==
    { MarketOf("", <<90, 10>>), MarketOf("", <<5, 95>>), MarketOf("", <<95, 5>>),
      [MarketOf("", <<90, 10>>) EXCEPT !.closed = TRUE] }

\* the lists of n Markets, the i-th with id MarketIds[i]
RankBatches(n) ==
    { [i \in 1..n |-> [shapes[i] EXCEPT !.id = MarketIds[i]]] :
        shapes \in [1..n -> RankShapes] }

FilterInit ==
    /\ \/ /\ now \in {10, 11}
          /\ batch \in { <<m>> : m \in FilterMarkets }
       \/ /\ now = 10
          /\ batch \in UNION { RankBatches(n) : n \in 0..MaxBatch }
    /\ slept = 0
    /\ raw = None
    /\ selected = <<>>
    /\ pc = "filter"
    /\ TraderIdle
    /\ SettleIdle
    /\ LoopIdle

FilterStep ==
    /\ pc = "filter"
    /\ selected' = filter_markets(batch, now)
    /\ pc' = "filtered"
    /\ UNCHANGED <<now, slept, raw, batch, traderVars, file, settleVars, loopVars>>

FilterNext == FilterStep

SpecFilter == FilterInit /\ [][FilterNext]_vars

----------------------------------------------------------------------------
(* SpecReconcile: check_settlements applied to one ledger file *)

\* an executed trade as a ledger file holds it: written by record_run at
\* instant ts and, when settled, with the two settlement keys added
LedgerTrade(mid, ts, settled) ==
    LET made == execute_trade([balance |-> FloatOf(1000), positions |-> <<>>,
                               trade_history |-> <<>>],
                              MarketOf(mid, <<97, 3>>), None, ts).ret
    IN  IF settled THEN SettledCopy(made, JStr("Yes")) ELSE made

\* a run record holding the given executed trades, the i-th run of its
\* ledger
RunOf(i, executed) ==
    record_run([state |-> "missing"], [EmptyLedger EXCEPT !.runs = [j \in 1..(i - 1) |-> <<>>]],
               [NoRun EXCEPT !.executed_trades = executed] @@ [summary |-> <<>>],
               i, "ok").trades.runs[i]

RECURSIVE LedgerTrades(_, _, _)
\* the i-th to the j-th trade of a file, sh giving the market and the
\* settled mark of each
LedgerTrades(sh, i, j) ==
    IF i > j THEN <<>>
    ELSE <<LedgerTrade(sh[i][1], i, sh[i][2])>> \o LedgerTrades(sh, i + 1, j)

\* the ledgers of two runs holding n trades between them, on markets "m1",
\* "m2" or a market without id, settled or not; the i-th trade of the file
\* was made at instant i
LedgerFiles(n) ==
    { [state  |-> "ok",
       ledger |-> [EmptyLedger EXCEPT !.runs =
                     << RunOf(1, LedgerTrades(sh, 1, k)),
                        RunOf(2, LedgerTrades(sh, k + 1, n)) >>]] :
        sh \in [1..n -> {"", "m1", "m2"} \X BOOLEAN], k \in 0..n }

\* every answer to GET /markets/{id}: a failure, or an object with each
\* form of closed and resolution
FullAnswers ==
    { [ok |-> FALSE] } \cup
    { [ok |-> TRUE, body |-> [closed |-> c, resolution |-> r]] :
        c \in {JBool(TRUE), JBool(FALSE), JStr("false"), JNull, Absent},
        r \in {JStr("Yes"), JStr("No"), JStr(""), JStr("null"), JNull, Absent,
               JNum(0), JNum(100)} }

\* one answer of each class
ShortAnswers ==
    { [ok |-> FALSE],
      [ok |-> TRUE, body |-> [closed |-> JBool(FALSE), resolution |-> Absent]],
      [ok |-> TRUE, body |-> [closed |-> JBool(TRUE), resolution |-> JStr("Yes")]],
      [ok |-> TRUE, body |-> [closed |-> JBool(TRUE), resolution |-> JNull]] }

\* the answers tried for a file: all of them when one market is asked for
AnswersFor(f) ==
    IF Len(MarketsToQuery(f)) <= 1 THEN FullAnswers ELSE ShortAnswers

ReconcileInit ==
    /\ file \in UNION { LedgerFiles(n) : n \in 0..MaxLedgerTrades }
                 \cup {[state |-> "missing"], [state |-> "corrupt"]}
    /\ settlement = EmptySettlement
    /\ queried = <<>>
    /\ api = <<>>
    /\ pc = "settle"
    /\ TraderIdle
    /\ FilterIdle
    /\ LoopIdle

\* one call of check_settlements
ReconcileStep ==
    /\ pc = "settle"
    /\ \E answers \in [Range(MarketsToQuery(file)) -> AnswersFor(file)] :
         LET r == check_settlements(file, answers)
         IN  /\ settlement' = r.result
             /\ queried' = r.queried
             /\ api' = answers
             /\ pc' = IF r.exc = "none" THEN "settled" ELSE "raised"
    /\ UNCHANGED <<file, traderVars, filterVars, loopVars>>

ReconcileNext == ReconcileStep

SpecReconcile == ReconcileInit /\ [][ReconcileNext]_vars

----------------------------------------------------------------------------
(* Spec: the bot process, main() with run_loop *)

\* one raw record of GET /markets
RawMarket(id, question, prices, endDate, volume) ==
    [id |-> JStr(id), question |-> question, endDate |-> JStr(endDate),
     outcomePrices |-> JStr(prices), volume |-> volume, liquidity |-> Absent,
     fee |-> JStr("0"), closed |-> JBool(FALSE), acceptingOrders |-> JStr("true")]

RawM1 == RawMarket("m1", JStr("Will it rain?"), "[0.97, 0.03]",
                   "2026-01-01T12:00:00Z", JStr("5000"))
RawM2 == RawMarket("m2", JStr("Will it snow?"), "[0.05, 0.95]",
                   "2026-01-01T14:00:00+00:00", JNum(100000))
RawCrypto == RawMarket("m3", JStr("Bitcoin above 100k?"), "[0.97, 0.03]",
                       "2026-01-01T12:00:00Z", JStr("5000"))
RawNullQuestion == RawMarket("m4", JNull, "[0.97, 0.03]",
                             "2026-01-01T12:00:00Z", JStr("5000"))
RawM6 == RawMarket("m6", JStr("Will it thunder?"), "[0.92, 0.08]",
                   "2026-01-01T12:00:00Z", JStr("5000"))
RawBadVolume == RawMarket("m5", JStr("Will it hail?"), "[0.90, 0.10]",
                          "2026-01-01T12:00:00Z", JStr("n/a"))

\* what GET /markets gives in a cycle: a RequestException, or a list
ApiMarketLists ==
    { [ok |-> FALSE],
      [ok |-> TRUE, body |-> <<>>],
      [ok |-> TRUE, body |-> <<RawM1>>],
      [ok |-> TRUE, body |-> <<RawM2, RawCrypto, RawM1>>],
      [ok |-> TRUE, body |-> <<RawBadVolume, RawM2>>],
      [ok |-> TRUE, body |-> <<RawM1, RawM6>>],
      [ok |-> TRUE, body |-> <<RawM1, RawNullQuestion>>] }

\* what GET /markets/{id} gives in a cycle: a failure, a market still open,
\* a closed market with its resolution, a closed market with none
ApiMarketAnswers ==
    { [ok |-> FALSE],
      [ok |-> TRUE, body |-> [closed |-> JBool(FALSE), resolution |-> Absent]],
      [ok |-> TRUE, body |-> [closed |-> JBool(TRUE), resolution |-> JStr("Yes")]],
      [ok |-> TRUE, body |-> [closed |-> JBool(TRUE), resolution |-> JNull]] }

\* the ledger an earlier process left: one run, one trade on "m1" at 09:00
PriorLedger ==
    LET made == execute_trade([balance |-> FloatOf(Cents(VIRTUAL_BALANCE)), positions |-> <<>>,
                               trade_history |-> <<>>],
                              MarketOf("m1", <<97, 3>>), None, 9)
        locals == [NoRun EXCEPT !.balance_before = FloatOf(Cents(VIRTUAL_BALANCE)),
                                !.markets = <<MarketOf("m1", <<97, 3>>)>>,
                                !.planned_trades = <<PlannedTrade(MarketOf("m1", <<97, 3>>))>>,
                                !.executed_trades = <<made.ret>>]
    IN  record_run([state |-> "missing"], EmptyLedger,
                   RunData(locals, made.t), 9, "ok").trades

\* the trades.json the process finds when it starts
StartFiles ==
    { [state |-> "missing"], [state |-> "corrupt"],
      [state |-> "ok", ledger |-> PriorLedger] }

\* the --balance argument of main(), read by float(): $9.60, $9.70, $12, or
\* the default
StartBalances ==
    { FloatOf(c) : c \in {960, 970, Cents(12), Cents(VIRTUAL_BALANCE)} }

\* ArbitrageBot.__init__ and main(): a fresh trader, the recorder loaded
\* from the file, running set
Init ==
    /\ file \in StartFiles
    /\ balance \in StartBalances
    /\ initial_balance = balance
    /\ positions = <<>>
    /\ trade_history = <<>>
    /\ last_call = [n |-> 0, ret |-> None, exc |-> "none"]
    /\ trades = Load(file)
    /\ running = TRUE
    /\ cycle = 0
    /\ run = NoRun
    /\ error = "none"
    /\ now = 10
    /\ slept = 0
    /\ raw = None
    /\ batch = <<>>
    /\ selected = <<>>
    /\ settlement = EmptySettlement
    /\ queried = <<>>
    /\ api = <<>>
    /\ pc = "loop"

\* a loop that starts its cycle without testing the stop flag
LoopEnter_ignoresFlag ==
    /\ pc = "loop"
    /\ cycle < MaxCycles
    /\ cycle' = cycle + 1
    /\ error' = "none"
    /\ pc' = "settle"
    /\ raw' = None
    /\ UNCHANGED <<traderVars, now, slept, batch, selected, file, settleVars,
                   trades, running, run>>

\* "while self.running:" entered: a cycle starts
LoopEnter ==
    /\ pc = "loop"
    /\ running
    /\ cycle < MaxCycles
    /\ cycle' = cycle + 1
    /\ error' = "none"
    /\ pc' = "settle"
    /\ raw' = None
    /\ UNCHANGED <<traderVars, now, slept, batch, selected, file, settleVars,
                   trades, running, run>>

\* "while self.running:" left: run_loop returns
LoopExit ==
    /\ pc = "loop"
    /\ ~running
    /\ pc' = "stopped"
    /\ UNCHANGED <<traderVars, filterVars, file, settleVars, loopVars>>

\* run_once, step 0: check_settlements on trades.json; its result is only
\* logged
Settle ==
    /\ pc = "settle"
    /\ \E answers \in [Range(MarketsToQuery(file)) -> ApiMarketAnswers] :
         LET r == check_settlements(file, answers)
         IN  /\ settlement' = r.result
             /\ queried' = r.queried
             /\ api' = answers
             /\ error' = r.exc
             /\ pc' = IF r.exc = "none" THEN "scan" ELSE "wait"
    /\ UNCHANGED <<traderVars, filterVars, file, trades, running, cycle, run>>

\* run_once, step 1: balance_before read, scan(); with no market left
\* run_once returns without recording
Scan ==
    /\ pc = "scan"
    /\ \E resp \in ApiMarketLists :
         LET r == scan(resp, now)
         IN  /\ raw' = resp
             /\ batch' = ParseAll(fetch_markets(resp).markets)
             /\ selected' = r.markets
             /\ error' = r.exc
             /\ IF r.exc = "none" /\ r.markets # <<>>
                THEN /\ run' = [NoRun EXCEPT !.balance_before = balance,
                                             !.markets = r.markets,
                                             !.scan_info = r.stats]
                     /\ pc' = "trade"
                ELSE /\ run' = NoRun
                     /\ pc' = "wait"
    /\ UNCHANGED <<traderVars, now, slept, file, settleVars, trades, running,
                   cycle>>

\* run_once, steps 2 and 3: the planned trades, then the execution loop
Trade ==
    /\ pc = "trade"
    /\ \E r \in {TradeLoop([balance |-> balance, positions |-> positions,
                            trade_history |-> trade_history],
                           run.markets, <<>>, now)} :
           /\ balance' = r.t.balance
           /\ positions' = r.t.positions
           /\ trade_history' = r.t.trade_history
           /\ run' = [run EXCEPT
                        !.planned_trades = [i \in 1..Len(run.markets) |->
                                              PlannedTrade(run.markets[i])],
                        !.executed_trades = r.executed]
           /\ error' = r.exc
           /\ pc' = IF r.exc = "none" THEN "record" ELSE "wait"
    /\ UNCHANGED <<initial_balance, last_call, filterVars, file, settleVars,
                   trades, running, cycle>>

\* run_once, step 4: record_run, which appends the run and saves the file
\* (the write goes through)
Record ==
    /\ pc = "record"
    /\ \E r \in {record_run(file, trades,
                            RunData(run, [balance |-> balance,
                                          positions |-> positions]),
                            now, "ok")} :
           /\ trades' = r.trades
           /\ file' = r.file
           /\ error' = r.exc
    /\ run' = NoRun
    /\ pc' = "wait"
    /\ UNCHANGED <<traderVars, filterVars, settleVars, running, cycle>>

\* a run_loop without the try/except: the exception of the cycle ends the
\* process
Wait_uncaught ==
    /\ pc = "wait"
    /\ ~running \/ slept = SCAN_INTERVAL
    /\ now' = IF slept = SCAN_INTERVAL THEN now + 1 ELSE now
    /\ slept' = IF slept = SCAN_INTERVAL THEN 0 ELSE slept
    /\ pc' = IF error = "none" THEN "loop" ELSE "stopped"
    /\ UNCHANGED <<traderVars, raw, batch, selected, file, settleVars, loopVars>>

\* one iteration of the wait of run_loop, "for _ in range(config.
\* SCAN_INTERVAL): if not self.running: break; time.sleep(1)": the flag is
\* found set and one second is slept.  Behind the last of the MaxCycles
\* cycles, after which no cycle is followed, the sleeps are not followed
\* either
Sleep ==
    /\ pc = "wait"
    /\ running
    /\ slept < SCAN_INTERVAL
    /\ cycle < MaxCycles
    /\ slept' = slept + 1
    /\ UNCHANGED <<traderVars, now, raw, batch, selected, file, settleVars,
                   loopVars, pc>>

\* the wait left, by the break of an iteration that finds the flag cleared
\* or after SCAN_INTERVAL sleeps, one hour; the except clause of run_loop
\* has logged the exception of the cycle, if any
Wait ==
    /\ pc = "wait"
    /\ ~running \/ slept = SCAN_INTERVAL
    /\ now' = IF slept = SCAN_INTERVAL THEN now + 1 ELSE now
    /\ slept' = IF slept = SCAN_INTERVAL THEN 0 ELSE slept
    /\ pc' = "loop"
    /\ UNCHANGED <<traderVars, raw, batch, selected, file, settleVars, loopVars>>

\* _signal_handler: SIGINT or SIGTERM arrives
Signal ==
    /\ pc # "stopped"
    /\ running
    /\ running' = FALSE
    /\ UNCHANGED <<traderVars, filterVars, file, settleVars, trades, cycle,
                   run, error, pc>>

Next ==
    \/ LoopEnter
    \/ LoopExit
    \/ Settle
    \/ Scan
    \/ Trade
    \/ Record
    \/ Sleep
    \/ Wait
    \/ Signal

Spec == Init /\ [][Next]_vars

\* the steps of the program itself, of which the control point enables at
\* most one; the bot process scheduled: the interpreter always takes the
\* next step of run_loop (every request has a timeout and the wait is finite); only
\* the arrival of a signal is left open
ProgramStep ==
    \/ LoopEnter
    \/ LoopExit
    \/ Settle
    \/ Scan
    \/ Trade
    \/ Record
    \/ Sleep
    \/ Wait

\* the process started with --balance 12
LiveInit == Init /\ balance = FloatOf(Cents(12))

SpecLive == LiveInit /\ [][Next]_vars /\ WF_vars(ProgramStep)

----------------------------------------------------------------------------
(* SpecCrash: the bot process, killed at some point of a save *)

\* what a kill during _save leaves on disk: the file as it was (killed
\* before open), an empty or partly written file (killed after open(.., 'w')
\* truncated it and before json.dump and the close finished), or the whole
\* new ledger (killed after the close)
KilledSave(before, ledger) ==
    { before, [state |-> "corrupt"], [state |-> "ok", ledger |-> ledger] }

\* run_once, step 4, with the process killed (SIGKILL, power loss) inside
\* record_run's _save: nothing of the process runs afterwards
RecordKilled ==
    /\ pc = "record"
    /\ LET r == record_run(file, trades,
                           RunData(run, [balance |-> balance,
                                         positions |-> positions]),
                           now, "ok")
       IN  /\ trades' = r.trades
           /\ file' \in KilledSave(file, r.trades)
    /\ pc' = "stopped"
    /\ UNCHANGED <<traderVars, filterVars, settleVars, running, cycle, run, error>>

CrashNext ==
    \/ Next
    \/ RecordKilled

SpecCrash == Init /\ [][CrashNext]_vars

----------------------------------------------------------------------------
(* SpecFault: the bot process on a store whose writes can fail *)

\* run_once, step 4, with _save raising OSError in one of its ways:
\* record_run has appended the run to the ledger in memory, the exception
\* passes through run_once to the except clause of run_loop
RecordFails ==
    /\ pc = "record"
    /\ \E outcome \in SaveFailures :
         LET r == record_run(file, trades,
                             RunData(run, [balance |-> balance,
                                           positions |-> positions]),
                             now, outcome)
         IN  /\ trades' = r.trades
             /\ file' = r.file
             /\ error' = r.exc
    /\ run' = NoRun
    /\ pc' = "wait"
    /\ UNCHANGED <<traderVars, filterVars, settleVars, running, cycle>>

FaultNext ==
    \/ Next
    \/ RecordFails

SpecFault == Init /\ [][FaultNext]_vars

----------------------------------------------------------------------------
(* Claims *)

\* two floats equal within floating-point tolerance: the same amount to
\* the cent, the doubles less than 2^30 units (4e-11) apart
Close(a, b) == a.c = b.c /\ Abs(a.e - b.e) < Pow2(30)

\* C1: starting from a non-negative balance, no sequence of execute_trade
\* calls makes the balance negative; a call that returns a trade found
\* balance >= cost and leaves balance = balance before - cost (the float
\* difference), and no call increases the balance.
C1_BalanceNeverNegative ==
    /\ [](FLessEq(Zero, balance))
    /\ [][ last_call'.n # last_call.n =>
             /\ FLessEq(balance', balance)
             /\ IF last_call'.ret # None
                THEN /\ FLessEq(last_call'.ret.cost, balance)
                     /\ balance' = FSub(balance, last_call'.ret.cost)
                ELSE balance' = balance ]_vars

\* Scenario D: $10, two trades at 0.97 accepted, the third refused at $0.30
C1_Witness ==
    /\ initial_balance = FloatOf(1000)
    /\ Len(trade_history) = 2
    /\ trade_history[1].cost.c = 485
    /\ trade_history[2].cost.c = 485
    /\ balance.c = 30
    /\ last_call.n = 3
    /\ last_call.ret = None
    /\ last_call.exc = "none"

\* C10: every ExecutedTrade that execute_trade produced has
\* cost = price * shares with shares = 5, within floating-point tolerance
\* (the cost is the float product of the price and 5, the recorded share
\* count is 5 to within rounding), whatever the price, TRADE_AMOUNT or the
\* amount argument.
C10_CostIsPriceTimesFiveShares ==
    /\ \A i \in 1..Len(trade_history) :
         /\ Close(trade_history[i].amount, FloatOf(Cents(SHARES_COUNT)))
         /\ trade_history[i].cost
              = FMulInt(FloatOf(trade_history[i].price), SHARES_COUNT)
    /\ last_call.ret # None =>
         /\ Close(last_call.ret.amount, FloatOf(Cents(SHARES_COUNT)))
         /\ last_call.ret.cost
              = FMulInt(FloatOf(last_call.ret.price), SHARES_COUNT)
         /\ last_call.ret.price = high_probability_price(last_call.market)

\* a trade on the NO side at 0.97 made with amount = 10
C10_Witness ==
    /\ last_call.n > 0
    /\ last_call.ret # None
    /\ last_call.amount = [dollars |-> 10]
    /\ last_call.ret.outcome = "NO"
    /\ last_call.ret.price = 97
    /\ last_call.ret.cost = FloatOf(485)

\* the survivor condition as C8 words it, at clock t
Eligible(m, t) ==
    /\ ~m.closed
    /\ m.accepting_orders
    /\ m.end_date # ""
    /\ FromIsoFormat(m.end_date).ok
    /\ 0 < FromIsoFormat(m.end_date).hour - t
    /\ FromIsoFormat(m.end_date).hour - t <= MAX_HOURS_UNTIL_END
    /\ MIN_PROBABILITY <= Max(yes_price(m), no_price(m))
    /\ Max(yes_price(m), no_price(m)) <= MAX_PROBABILITY
    /\ \/ m.fee \in {JStr(""), JNull}
       \/ m.fee.t = "str" /\ ~ParseFloat(m.fee.s).ok
       \/ m.fee.t = "str" /\ ParseFloat(m.fee.s).value <= MAX_FEE
    /\ m.volume >= Cents(MIN_VOLUME)

\* C8: a market survives filter_markets iff it is not closed, accepts orders,
\* has 0 < hours_until_end <= MAX_HOURS_UNTIL_END, a max_probability within
\* [MIN_PROBABILITY, MAX_PROBABILITY], a fee <= MAX_FEE or unparsable, and a
\* volume >= MIN_VOLUME: every returned market is one, and when the cap did
\* not cut the list every such market is returned.
C8_SurvivorIffEligible ==
    pc = "filtered" =>
      /\ \A k \in 1..Len(selected) : Eligible(selected[k], now)
      /\ Len(selected) < MAX_TRADES_PER_RUN =>
           \A i \in 1..Len(batch) :
             Eligible(batch[i], now) => batch[i] \in Range(selected)
      /\ \A i \in 1..Len(batch) :
           batch[i].closed => batch[i] \notin Range(selected)

\* a survivor on every inclusive boundary: 4 hours left, probability 0.98,
\* volume 1000, and a fee that does not parse
C8_Witness ==
    /\ pc = "filtered"
    /\ now = 11
    /\ Len(batch) = 1
    /\ batch[1].end_date = "2026-01-01T15:00:00"
    /\ batch[1].outcome_prices = <<98, 2>>
    /\ batch[1].fee = JStr("free")
    /\ batch[1].volume = 100000
    /\ selected = batch

\* C9: filter_markets returns the first MAX_TRADES_PER_RUN survivors in
\* ascending order of dominant price, ties in input order: only input
\* markets, none twice, min(cap, number of survivors) of them, prices
\* non-decreasing, equal prices in input order, and every survivor left out
\* is no cheaper than any returned one and, at equal price, later in input.
C9_SortedStableCapped ==
    pc = "filtered" =>
      LET elig == { i \in 1..Len(batch) : Eligible(batch[i], now) }
          At(k) == CHOOSE i \in 1..Len(batch) : batch[i] = selected[k]
          inc == { At(k) : k \in 1..Len(selected) }
          P(m) == high_probability_price(m)
      IN  /\ \A k \in 1..Len(selected) : \E i \in elig : batch[i] = selected[k]
          /\ Len(selected) = Min(MAX_TRADES_PER_RUN, Cardinality(elig))
          /\ Cardinality(inc) = Len(selected)
          /\ \A k, l \in 1..Len(selected) :
               k < l => /\ P(selected[k]) <= P(selected[l])
                        /\ P(selected[k]) = P(selected[l]) => At(k) < At(l)
          /\ \A i \in elig \ inc : \A k \in 1..Len(selected) :
               /\ P(batch[i]) >= P(selected[k])
               /\ P(batch[i]) = P(selected[k]) => i > At(k)

\* six survivors, five returned, the one left out tied in price with the
\* last one returned
C9_Witness ==
    /\ pc = "filtered"
    /\ Len(batch) = 6
    /\ \A i \in 1..6 : Eligible(batch[i], now)
    /\ Len(selected) = MAX_TRADES_PER_RUN
    /\ high_probability_price(selected[1]) < high_probability_price(selected[5])
    /\ \E i \in 1..6 :
         /\ batch[i] \notin Range(selected)
         /\ high_probability_price(batch[i]) = high_probability_price(selected[5])

\* C4: reconciling a ledger whose executed trades are all settled requests
\* nothing from the API, returns empty resolved, unresolved and
\* newly_resolved lists, and leaves the ledger file as it was.
C4_SettledLedgerIsNoOp ==
    /\ [](( /\ pc = "settled"
            /\ file.state = "ok"
            /\ \A tr \in Range(Flatten(file.ledger.runs)) :
                 "settled" \in DOMAIN tr /\ tr.settled )
          => /\ queried = <<>>
             /\ settlement.resolved = <<>>
             /\ settlement.unresolved = <<>>
             /\ settlement.newly_resolved = <<>>)
    /\ [][pc = "settle" /\ pc' # "settle" => file' = file]_vars

\* a pass over a ledger of three settled trades in two runs
C4_Witness ==
    /\ pc = "settled"
    /\ file.state = "ok"
    /\ Len(Flatten(file.ledger.runs)) = 3
    /\ file.ledger.runs[1].executed_trades # <<>>
    /\ file.ledger.runs[2].executed_trades # <<>>
    /\ \A tr \in Range(Flatten(file.ledger.runs)) :
         "settled" \in DOMAIN tr /\ tr.settled
    /\ queried = <<>>
    /\ settlement = EmptySettlement

\* the flag forms the reconciler takes for closed: every value but false,
\* null, "" and an absent key
ReadsAsClosed(body) ==
    body.closed \notin {JBool(FALSE), JNull, JStr(""), Absent}

\* the entries of a result list that are about market id mid
EntriesOf(list, mid) ==
    SelectSeq(list, LAMBDA e : e.market_id = mid)

\* C5 as stated: closed with a non-null resolution is settled with that
\* resolution verbatim, closed with an absent or null resolution is settled
\* as CANCELLED, not closed is unresolved.
C5_AsStated ==
    pc = "settled" =>
      \A mid \in Range(queried) :
        api[mid].ok =>
          LET body == api[mid].body
              res  == EntriesOf(settlement.resolved, mid)
              unr  == EntriesOf(settlement.unresolved, mid)
          IN  /\ (ReadsAsClosed(body) /\ body.resolution \notin {JNull, Absent})
                   => /\ Len(res) = 1 /\ unr = <<>>
                      /\ res[1].settled
                      /\ res[1].resolution = body.resolution
              /\ (ReadsAsClosed(body) /\ body.resolution \in {JNull, Absent})
                   => /\ Len(res) = 1 /\ unr = <<>>
                      /\ res[1].settled
                      /\ res[1].resolution = JStr("CANCELLED")
              /\ ~ReadsAsClosed(body)
                   => /\ res = <<>> /\ Len(unr) = 1
                      /\ "settled" \notin DOMAIN unr[1]
                      /\ "resolution" \notin DOMAIN unr[1]

\* C5 (amended): for each queried market the classification depends only on
\* the answer's closed flag and resolution: closed with a resolution that is
\* a non-empty string other than "null" is settled with that resolution
\* verbatim; closed with an absent, null, empty or "null" resolution is
\* settled as CANCELLED; not closed is unresolved, the trade unchanged.  (A
\* resolution that is a number is read by truthiness as well: 0 is empty,
\* any other number is copied.)
C5_ClassificationByClosedAndResolution ==
    pc = "settled" =>
      \A mid \in Range(queried) :
        api[mid].ok =>
          LET body == api[mid].body
              res  == EntriesOf(settlement.resolved, mid)
              unr  == EntriesOf(settlement.unresolved, mid)
              void == {JNull, Absent, JStr(""), JStr("null"), JNum(0)}
          IN  /\ (ReadsAsClosed(body) /\ body.resolution \notin void)
                   => /\ Len(res) = 1 /\ unr = <<>>
                      /\ res[1].settled
                      /\ res[1].resolution = body.resolution
              /\ (ReadsAsClosed(body) /\ body.resolution \in void)
                   => /\ Len(res) = 1 /\ unr = <<>>
                      /\ res[1].settled
                      /\ res[1].resolution = JStr("CANCELLED")
              /\ ~ReadsAsClosed(body)
                   => /\ res = <<>> /\ Len(unr) = 1
                      /\ "settled" \notin DOMAIN unr[1]
                      /\ "resolution" \notin DOMAIN unr[1]

\* a closed market whose resolution is the string "null", reported CANCELLED
C5_Witness ==
    /\ pc = "settled"
    /\ queried = <<"m1">>
    /\ api["m1"].ok
    /\ api["m1"].body.closed = JBool(TRUE)
    /\ api["m1"].body.resolution = JStr("null")
    /\ Len(settlement.resolved) = 1
    /\ settlement.resolved[1].resolution = JStr("CANCELLED")

\* the first unsettled trade of market id mid in ledger order
FirstUnsettled(f, mid) ==
    LET all == Flatten(f.ledger.runs)
        i   == CHOOSE i \in 1..Len(all) :
                 /\ all[i].market_id = mid
                 /\ ~("settled" \in DOMAIN all[i] /\ all[i].settled)
                 /\ \A j \in 1..(i - 1) :
                      ~( /\ all[j].market_id = mid
                         /\ ~("settled" \in DOMAIN all[j] /\ all[j].settled) )
    IN  all[i]

\* the market ids that have an unsettled trade in some run of the file
UnsettledIds(f) ==
    { tr.market_id : tr \in { x \in Range(Flatten(f.ledger.runs)) :
                                ~("settled" \in DOMAIN x /\ x.settled) } }

\* C7 as stated: every market_id with an unsettled trade is queried exactly
\* once, none other is, and the reported trade is the first unsettled one.
C7_AsStated ==
    (pc = "settled" /\ file.state = "ok") =>
      /\ \A mid \in UnsettledIds(file) :
           Cardinality({ i \in 1..Len(queried) : queried[i] = mid }) = 1
      /\ Range(queried) \subseteq UnsettledIds(file)
      /\ \A mid \in Range(queried) :
           LET rep == EntriesOf(settlement.resolved \o settlement.unresolved, mid)
               fst == FirstUnsettled(file, mid)
           IN  /\ Len(rep) = 1
               /\ \A k \in DOMAIN fst : rep[1][k] = fst[k]

\* C7 (amended): in one pass every distinct non-empty market_id that has an
\* unsettled trade in some run is queried exactly once, no other market_id
\* is queried (none whose trades are all settled, and not the empty id), and
\* the trade reported for a market_id is its first unsettled occurrence in
\* ledger order.
C7_EachUnsettledMarketQueriedOnce ==
    (pc = "settled" /\ file.state = "ok") =>
      /\ \A mid \in UnsettledIds(file) \ {""} :
           Cardinality({ i \in 1..Len(queried) : queried[i] = mid }) = 1
      /\ Range(queried) \subseteq UnsettledIds(file) \ {""}
      /\ \A mid \in Range(queried) :
           LET rep == EntriesOf(settlement.resolved \o settlement.unresolved, mid)
               fst == FirstUnsettled(file, mid)
           IN  /\ Len(rep) = 1
               /\ \A k \in DOMAIN fst : rep[1][k] = fst[k]

\* market "m1" settled in run 1, then unsettled twice: the second of its
\* three trades is the one reported, and the market is asked for once
C7_Witness ==
    /\ pc = "settled"
    /\ file.state = "ok"
    /\ Len(file.ledger.runs[1].executed_trades) = 1
    /\ Len(file.ledger.runs[2].executed_trades) = 2
    /\ \A tr \in Range(Flatten(file.ledger.runs)) : tr.market_id = "m1"
    /\ "settled" \in DOMAIN file.ledger.runs[1].executed_trades[1]
    /\ queried = <<"m1">>
    /\ Len(settlement.unresolved) = 1
    /\ settlement.unresolved[1].timestamp = 2

\* C2: when a reconciliation pass finds the market of an unsettled trade
\* closed, the trade's entry in the persisted ledger has settled = true and
\* the reported resolution once the pass is over.
C2_SettlementWrittenBack ==
    (pc = "scan" /\ file.state = "ok") =>
      \A k \in 1..Len(settlement.newly_resolved) :
        \A tr \in Range(Flatten(file.ledger.runs)) :
          ( /\ tr.market_id = settlement.newly_resolved[k].market_id
            /\ tr.timestamp = settlement.newly_resolved[k].timestamp )
          => /\ "settled" \in DOMAIN tr
             /\ tr.settled
             /\ tr.resolution = settlement.newly_resolved[k].resolution

\* C3: over repeated reconciliation calls, one per cycle, a trade whose
\* market is closed with a null resolution is reported CANCELLED, and once
\* a call has reported it newly resolved the next call does not.
C3_NewlyResolvedOnce ==
    [][ (pc = "settle" /\ pc' = "scan") =>
          \A k \in 1..Len(settlement'.resolved) :
            LET e   == settlement'.resolved[k]
                ans == api'[e.market_id]
            IN  (ans.ok /\ ans.body.closed = JBool(TRUE) /\ ans.body.resolution = JNull)
                => /\ e.resolution = JStr("CANCELLED")
                   /\ ~\E j \in 1..Len(settlement.newly_resolved) :
                         /\ settlement.newly_resolved[j].market_id = e.market_id
                         /\ settlement.newly_resolved[j].timestamp = e.timestamp
                         /\ e \in Range(settlement'.newly_resolved) ]_vars

\* C6: a failed settlement query is not terminal: the trade is put in
\* unresolved (and not in resolved), every other market of the pass is
\* still queried, the cycle goes on to the scan without an exception, and
\* the next cycle's pass queries the same market again.
C6_FailedQueryIsRetried ==
    /\ []( (pc = "scan" /\ file.state = "ok") =>
             /\ Range(queried) =
                  { tr.market_id : tr \in { x \in Range(Flatten(file.ledger.runs)) :
                      ~("settled" \in DOMAIN x /\ x.settled) /\ x.market_id # "" } }
             /\ \A mid \in Range(queried) :
                  ~api[mid].ok =>
                    /\ \E k \in 1..Len(settlement.unresolved) :
                         settlement.unresolved[k].market_id = mid
                    /\ \A k \in 1..Len(settlement.resolved) :
                         settlement.resolved[k].market_id # mid )
    /\ [][ (pc = "settle" /\ pc' # "settle") =>
             /\ (\E mid \in Range(queried') : ~api'[mid].ok)
                  => (pc' = "scan" /\ error' = "none")
             /\ \A mid \in Range(queried) :
                  ~api[mid].ok => mid \in Range(queried') ]_vars

\* second cycle: "m1" failed again and is unresolved, "m2" answered closed
\* and is resolved, and the cycle is at the scan
C6_Witness ==
    /\ pc = "scan"
    /\ cycle = 2
    /\ queried = <<"m1", "m2">>
    /\ ~api["m1"].ok
    /\ api["m2"].ok
    /\ Len(settlement.unresolved) = 1
    /\ settlement.unresolved[1].market_id = "m1"
    /\ Len(settlement.resolved) = 1
    /\ settlement.resolved[1].market_id = "m2"

\* the runs a reader finds in trades.json; none when the file is missing or
\* cannot be decoded
PersistedRuns(f) == IF f.state = "ok" THEN f.ledger.runs ELSE <<>>

\* C11: every cycle that run_once completes appends exactly one run record
\* to the persisted ledger, also when the API returned nothing or no market
\* passed the filter.
C11_OneRunRecordPerCycle ==
    [][ (pc # "wait" /\ pc' = "wait" /\ error' = "none")
          => Len(PersistedRuns(file')) = Len(PersistedRuns(file)) + 1 ]_vars

\* C12: a ledger write is all-or-nothing: whenever the persisted store
\* changes, also when the process is killed during the save, it holds the
\* complete new ledger, the previous runs followed by the one new record;
\* it is never left empty, truncated or partly written.
C12_SaveIsAllOrNothing ==
    [][ file' # file =>
          /\ file'.state = "ok"
          /\ Len(file'.ledger.runs) = Len(PersistedRuns(file)) + 1
          /\ \A i \in 1..Len(PersistedRuns(file)) :
               file'.ledger.runs[i] = PersistedRuns(file)[i] ]_vars

\* C13: a missing or corrupt trades.json is taken for an empty ledger by
\* every reader: the recorder starts its first cycle with the empty ledger
\* in memory, and the reconciliation step of a cycle raises nothing because
\* of the file, so that the cycle goes on to the scan.
C13_UnreadableLedgerReadsAsEmpty ==
    [][ /\ (pc = "loop" /\ pc' = "settle" /\ cycle = 0 /\ file.state # "ok")
             => trades = EmptyLedger
        /\ (pc = "settle" /\ pc' # "settle" /\ file.state # "ok")
             => /\ error' = "none"
                /\ pc' = "scan"
                /\ settlement' = EmptySettlement ]_vars

\* C14: the persisted run sequence is append-only: after every record_run
\* the persisted runs are the runs persisted before it followed by one new
\* record, every earlier record kept in place and unaltered; and nothing
\* but record_run changes the file.
C14_RunsAppendOnly ==
    [][ /\ (pc = "record" /\ pc' = "wait")
             => /\ file'.state = "ok"
                /\ Len(file'.ledger.runs) = Len(PersistedRuns(file)) + 1
                /\ \A i \in 1..Len(PersistedRuns(file)) :
                     file'.ledger.runs[i] = PersistedRuns(file)[i]
                /\ file'.ledger.runs[Len(file'.ledger.runs)].executed_trades
                     = run.executed_trades
        /\ pc # "record" => file' = file ]_vars

\* the second cycle has recorded its run behind the run of an earlier
\* process and the run of the first cycle, both still in place
C14_Witness ==
    /\ pc = "wait"
    /\ cycle = 2
    /\ error = "none"
    /\ file.state = "ok"
    /\ Len(file.ledger.runs) = 3
    /\ file.ledger.runs[1] = PriorLedger.runs[1]
    /\ file.ledger.runs[2].executed_trades # <<>>
    /\ file.ledger.runs[3].timestamp = 11

\* a raw record every field of which the normalizer can read: a string
\* question, and a volume and a liquidity that are numbers or absent
WellFormed(rec) ==
    /\ rec.question.t = "str"
    /\ FloatOrZero(rec.volume).ok
    /\ FloatOrZero(rec.liquidity).ok

\* C15: one malformed raw record never aborts the batch: whatever one
\* record of the list the API returned contains, every well-formed record of
\* the list that is not about crypto is normalized and handed to the filter
\* in the same cycle.
C15_MalformedRecordDoesNotAbortBatch ==
    (raw # None /\ raw.ok) =>
      \A i \in 1..Len(raw.body) :
        (WellFormed(raw.body[i]) /\ ~HasCryptoKeyword(raw.body[i].question.s))
          => \E k \in 1..Len(batch) : batch[k].id = raw.body[i].id.s

\* a raw numeric field that is absent or that float() refuses
AbsentOrNonNumeric(val) == val = Absent \/ ~PyFloat(val).ok

\* C16: a raw record whose volume or liquidity is absent or non-numeric is
\* still normalized, not dropped, and the Market it yields has 0 in that
\* field.
C16_NumericFieldsDefaultToZero ==
    (raw # None /\ raw.ok /\ error = "none") =>
      \A i \in 1..Len(raw.body) :
        LET rec == raw.body[i]
        IN  (rec.question.t = "str" /\ ~HasCryptoKeyword(rec.question.s))
            => /\ AbsentOrNonNumeric(rec.volume)
                    => \E k \in 1..Len(batch) :
                         batch[k].id = rec.id.s /\ batch[k].volume = 0
               /\ AbsentOrNonNumeric(rec.liquidity)
                    => \E k \in 1..Len(batch) :
                         batch[k].id = rec.id.s /\ batch[k].liquidity = 0

\* C17: an exception raised inside a cycle of run_loop does not end the
\* loop: the process goes to the wait and back to the loop test and stops
\* only on a stop signal; while it does the balance and the positions stay
\* as they stood, and unless a signal arrives the next cycle is started
\* with them.
C17_ExceptionDoesNotEndLoop ==
    /\ [][ /\ error' # "none"
             => (pc' \in {"wait", "loop"} \/ (pc' = "stopped" /\ ~running'))
           /\ error # "none"
             => (balance' = balance /\ positions' = positions) ]_vars
    /\ (error # "none" /\ cycle < MaxCycles)
         ~> (~running \/ (pc = "settle" /\ cycle > 1))

\* the scan of the first cycle raised; the process is back at the loop
\* test, running, with the balance it had
C17_Witness ==
    /\ error = "AttributeError"
    /\ pc = "loop"
    /\ running
    /\ cycle = 1
    /\ cycle < MaxCycles
    /\ balance = initial_balance

\* C18: once a stop signal has cleared the flag no new cycle is started and
\* run_loop terminates: a wait under way ends at the flag test without
\* another sleep, and a cycle under way runs on to its end, its ledger
\* append included, before the loop is left.
C18_StopSignalEndsLoop ==
    /\ [][ ~running =>
             /\ cycle' = cycle
             /\ pc = "wait"
                  => /\ pc' = "loop"
                     /\ slept < SCAN_INTERVAL => (now' = now /\ slept' = slept)
             /\ pc = "loop" => pc' = "stopped"
             /\ pc = "settle" => pc' \in {"scan", "wait"}
             /\ pc = "scan" => pc' \in {"trade", "wait"}
             /\ pc = "trade" => pc' \in {"record", "wait"}
             /\ pc = "record"
                  => /\ pc' = "wait"
                     /\ Len(PersistedRuns(file')) = Len(PersistedRuns(file)) + 1 ]_vars
    /\ ~running ~> (pc = "stopped")

\* the signal came a quarter of an hour into the wait that followed the
\* first cycle: the run of that cycle is on disk, the wait ended after 900
\* of its 3600 sleeps, no second cycle was started, the loop is left
C18_Witness ==
    /\ pc = "stopped"
    /\ ~running
    /\ cycle = 1
    /\ now = 10
    /\ slept = SCAN_INTERVAL \div 4
    /\ file.state = "ok"
    /\ file.ledger.runs[Len(file.ledger.runs)].timestamp = 10

\* C19: a failed market-list fetch (network error, timeout, non-2xx status)
\* is replaced by an empty result and is not propagated: the scan raises
\* nothing and selects nothing, the cycle ends without a trade, and the
\* balance and the position list are as before the cycle.
C19_FetchFailureIsEmptyResult ==
    [][ (pc = "scan" /\ pc' # "scan" /\ ~raw'.ok) =>
          /\ error' = "none"
          /\ batch' = <<>>
          /\ selected' = <<>>
          /\ pc' = "wait"
          /\ balance' = balance
          /\ positions' = positions
          /\ trade_history' = trade_history ]_vars

\* second cycle: the fetch failed, the cycle is over without an exception
\* and the trader holds what the first cycle left
C19_Witness ==
    /\ pc = "wait"
    /\ cycle = 2
    /\ raw = [ok |-> FALSE]
    /\ error = "none"
    /\ selected = <<>>
    /\ Len(positions) = 2
    /\ FLess(balance, initial_balance)

RECURSIVE FirstInsufficiency(_, _, _)
\* the place in the candidate list, from place i on with the balance bal,
\* of the first candidate whose cost is above the balance left by the
\* candidates before it, each of them bought; one past the end of the list
\* when the balance covers them all
FirstInsufficiency(bal, markets, i) ==
    IF i > Len(markets) THEN i
    ELSE LET cost == TradeCost(high_probability_price(markets[i]),
                               TRADE_AMOUNT)
         IN  IF FLess(bal, cost) THEN i
             ELSE FirstInsufficiency(FSub(bal, cost), markets, i + 1)

C21_TieGoesToYes ==
    last_call.n > 0 =>
      LET m == last_call.market
      IN  /\ yes_price(m) = no_price(m) => high_probability_outcome(m) = "YES"
          /\ high_probability_price(m) >= yes_price(m)
          /\ high_probability_price(m) >= no_price(m)
          /\ high_probability_price(m) =
               IF high_probability_outcome(m) = "YES" THEN yes_price(m)
               ELSE no_price(m)
          /\ last_call.ret # None =>
               /\ last_call.ret.outcome = high_probability_outcome(m)
               /\ last_call.ret.price = high_probability_price(m)
               /\ last_call.ret.outcome = "NO" => no_price(m) > yes_price(m)

\* a trade on a market priced 0.50 / 0.50, bought on the YES side
C21_Witness ==
    /\ last_call.n > 0
    /\ last_call.market.outcome_prices = <<50, 50>>
    /\ last_call.ret # None
    /\ last_call.ret.outcome = "YES"
    /\ last_call.ret.price = 50

\* C22: in the trade loop of a cycle a candidate is left unexecuted only
\* because the balance at its turn is below its cost, price * 5: the first
\* candidate that was not executed cost more than the balance that was left.
C22_UnexecutedOnlyWhenUnaffordable ==
    pc = "record" =>
      LET k == Len(run.executed_trades)
      IN  k < Len(run.markets) =>
            FLess(balance,
                  TradeCost(high_probability_price(run.markets[k + 1]),
                            TRADE_AMOUNT))

\* the cost execute_trade computes for the market of the last call
CostOfLastCall ==
    TradeCost(high_probability_price(last_call.market), TRADE_AMOUNT)

\* C23: an execute_trade call returns no trade exactly when the balance is
\* below the cost, and then the balance, the positions and the trade history
\* are as before; a call that returns a trade appends exactly one position
\* and one history entry, the earlier ones kept.  (A call on a market priced
\* 0 raises instead of returning, and changes nothing either.)
C23_NoTradeIffBalanceBelowCost ==
    [][ last_call'.n # last_call.n =>
          /\ (last_call'.ret = None /\ last_call'.exc = "none")
               <=> FLess(balance,
                         TradeCost(high_probability_price(last_call'.market),
                                   TRADE_AMOUNT))
          /\ last_call'.exc # "none"
               <=> high_probability_price(last_call'.market) = 0
          /\ last_call'.ret = None
               => /\ balance' = balance
                  /\ positions' = positions
                  /\ trade_history' = trade_history
          /\ last_call'.ret # None
               => /\ positions' = Append(positions, positions'[Len(positions')])
                  /\ trade_history' = Append(trade_history, last_call'.ret)
                  /\ positions'[Len(positions')].market_id = last_call'.market.id
                  /\ positions'[Len(positions')].cost = last_call'.ret.cost ]_vars

\* a call at 0.92 with a balance of 4.60 is refused, the float product
\* 0.92 * 5 being 4.6000000000000005; nothing is added
C23_Witness ==
    /\ last_call.n = 1
    /\ last_call.ret = None
    /\ last_call.exc = "none"
    /\ high_probability_price(last_call.market) = 92
    /\ balance = FloatOf(460)
    /\ CostOfLastCall.c = 460
    /\ FLess(balance, CostOfLastCall)
    /\ positions = <<>>
    /\ trade_history = <<>>

\* C24: after any sequence of execute_trade calls on one trader,
\* initial_balance - balance = get_total_invested() = the sum of cost over
\* the positions, get_potential_payout() = 5 (dollars) for each position,
\* and get_total_profit_if_win() = get_potential_payout() -
\* get_total_invested(), each equality within floating-point tolerance.
C24_AccessorsAgreeWithBalance ==
    /\ Close(FSub(initial_balance, balance), get_total_invested(positions))
    /\ get_total_invested(positions) = SumOver(trade_history, "cost")
    /\ Len(positions) = Len(trade_history)
    /\ \A i \in 1..Len(positions) : positions[i].cost = trade_history[i].cost
    /\ Close(get_potential_payout(positions),
             FloatOf(Cents(SHARES_COUNT) * Len(positions)))
    /\ Close(get_total_profit_if_win(positions),
             FSub(get_potential_payout(positions), get_total_invested(positions)))

\* three positions bought at different prices out of $12
C24_Witness ==
    /\ initial_balance = FloatOf(1200)
    /\ Len(positions) = 3
    /\ positions[1].cost.c = 485
    /\ positions[2].cost.c = 250
    /\ positions[3].cost.c = 450
    /\ balance.c = 15
    /\ get_total_profit_if_win(positions).c = 315

\* C25: in every run record of the ledger, summary.total_invested is the
\* sum of cost over the record's own executed trades and
\* summary.potential_payout the sum of their shares, within floating-point
\* tolerance, in every run of a process.
C25_SummaryIsPerRun ==
    file.state = "ok" =>
      \A i \in 1..Len(file.ledger.runs) :
        LET rec == file.ledger.runs[i]
        IN  /\ Close(rec.summary.total_invested,
                     SumOver(rec.executed_trades, "cost"))
            /\ Close(rec.summary.potential_payout,
                     SumOver(rec.executed_trades, "amount"))

\* the ledger on disk holds only records written since the process found
\* no readable ledger at its start
LedgerStartedEmpty ==
    /\ file.state = "ok"
    /\ \A i \in 1..Len(file.ledger.runs) :
         file.ledger.runs[i] # PriorLedger.runs[1]

\* C26: for a ledger that started empty, the total_invested counter is,
\* within floating-point tolerance, the sum of cost over every executed
\* trade of every run record.
C26_CounterIsSumOfCost ==
    LedgerStartedEmpty =>
      Close(file.ledger.total_invested,
            SumOver(Flatten(file.ledger.runs), "cost"))

\* a run record this process appended, and not one it found in the ledger
WrittenByProcess(rec) == rec # PriorLedger.runs[1]

\* C27: in every run record of the ledger, summary.balance_after is,
\* within floating-point tolerance, virtual_balance_before less the sum of
\* cost of the record's executed trades,
\* and of two consecutive records written by the same process the later
\* one's virtual_balance_before is the earlier one's summary.balance_after.
C27_BalancesChain ==
    file.state = "ok" =>
      LET runs == file.ledger.runs
      IN  /\ \A i \in 1..Len(runs) :
               Close(runs[i].summary.balance_after,
                     FSub(runs[i].virtual_balance_before,
                          SumOver(runs[i].executed_trades, "cost")))
          /\ \A i \in 1..(Len(runs) - 1) :
               WrittenByProcess(runs[i]) /\ WrittenByProcess(runs[i + 1]) =>
                 runs[i + 1].virtual_balance_before
                   = runs[i].summary.balance_after

\* the ledger holds two consecutive records of this process, each with an
\* executed trade
C27_Witness ==
    /\ file.state = "ok"
    /\ \E i \in 1..(Len(file.ledger.runs) - 1) :
         /\ WrittenByProcess(file.ledger.runs[i])
         /\ WrittenByProcess(file.ledger.runs[i + 1])
         /\ file.ledger.runs[i].executed_trades # <<>>
         /\ file.ledger.runs[i + 1].executed_trades # <<>>

\* the run records of this process in the persisted ledger
PersistedByProcess ==
    IF file.state = "ok" THEN SelectSeq(file.ledger.runs, WrittenByProcess)
    ELSE <<>>

\* C28: at every cycle boundary of run_loop, initial balance minus current
\* balance is, within floating-point tolerance, the sum of cost over the
\* executed trades of the run records
\* this process has appended to the persisted ledger, also after a cycle
\* that ended in an exception such as a failed save.
C28_SpentIsPersisted ==
    pc \in {"wait", "loop", "stopped"} =>
      Close(FSub(initial_balance, balance),
            SumOver(Flatten(PersistedByProcess), "cost"))

\* the entries of a result list that carry settled = true
MarkedSettled(e) == "settled" \in DOMAIN e /\ e.settled = TRUE

\* C29 as stated: in every result each market_id with an unsettled trade
\* has exactly one entry in resolved and unresolved together, the two lists
\* hold the queried markets and nothing else, newly_resolved is part of
\* resolved, and the entries of resolved, and none of unresolved, carry
\* settled = true.
C29_AsStated ==
    pc = "settled" =>
      LET ids == IF file.state = "ok" THEN UnsettledIds(file) ELSE {}
          both == settlement.resolved \o settlement.unresolved
      IN  /\ \A mid \in ids : Len(EntriesOf(both, mid)) = 1
          /\ { e.market_id : e \in Range(both) } = Range(queried)
          /\ Range(settlement.newly_resolved) \subseteq Range(settlement.resolved)
          /\ \A e \in Range(settlement.resolved) : MarkedSettled(e)
          /\ \A e \in Range(settlement.unresolved) : ~MarkedSettled(e)

\* C29 (amended): in every result each non-empty market_id with an
\* unsettled trade has exactly one entry in resolved and unresolved
\* together, the two lists hold the queried markets and nothing else,
\* newly_resolved is part of resolved, and the entries of resolved, and
\* none of unresolved, carry settled = true.
C29_ResultPartitionsQueriedMarkets ==
    pc = "settled" =>
      LET ids == IF file.state = "ok" THEN UnsettledIds(file) \ {""} ELSE {}
          both == settlement.resolved \o settlement.unresolved
      IN  /\ \A mid \in ids : Len(EntriesOf(both, mid)) = 1
          /\ { e.market_id : e \in Range(both) } = Range(queried)
          /\ Len(both) = Len(queried)
          /\ Range(settlement.newly_resolved) \subseteq Range(settlement.resolved)
          /\ \A e \in Range(settlement.resolved) : MarkedSettled(e)
          /\ \A e \in Range(settlement.unresolved) : ~MarkedSettled(e)

\* a pass over a ledger with unsettled trades on "m1", "m2" and a market
\* without id: one market found closed, the other not
C29_Witness ==
    /\ pc = "settled"
    /\ file.state = "ok"
    /\ UnsettledIds(file) = {"", "m1", "m2"}
    /\ Len(settlement.resolved) = 1
    /\ Len(settlement.unresolved) = 1
    /\ settlement.newly_resolved = settlement.resolved

\* C30: the reconciler reads the closed field as parse_bool does: a market
\* whose closed field arrives as a string that parse_bool takes for false,
\* such as "false", is not closed, and its trade stays unresolved as it
\* does for the native false.
C30_ClosedReadAsNormalizerDoes ==
    pc = "settled" =>
      \A mid \in Range(queried) :
        ( /\ api[mid].ok
          /\ api[mid].body.closed.t = "str"
          /\ ~parse_bool(api[mid].body.closed) ) =>
            /\ Len(EntriesOf(settlement.unresolved, mid)) = 1
            /\ Len(EntriesOf(settlement.resolved, mid)) = 0

====
